---- MODULE Spec2Model ----
(***************************************************************************)
(* The authenticated request pipeline of filamentseek-web:                 *)
(* request_json / send_once / refresh_access_token (src/src/request.rs)    *)
(* over the Session kept in LocalStorage (src/src/session.rs).             *)
(*                                                                         *)
(* The browser runs the calls as cooperative tasks on one thread: a task   *)
(* runs without interruption from one .await on the network to the next,   *)
(* so every action below is the code between two such awaits.              *)
(***************************************************************************)
EXTENDS Integers, Sequences, FiniteSets, TLC

\* ------------------------------------------------------------------------
\* Bounds
\* ------------------------------------------------------------------------

\* Token pairs the server may have issued over one behaviour (pair 1 is the
\* one a Session persisted by an earlier page load holds).
MaxTokens == 2

\* The tasks that may have a request_json call in flight at the same time.
Tasks == {"t1", "t2"}

\* ------------------------------------------------------------------------
\* Values
\* ------------------------------------------------------------------------

None == <<>>
Some(x) == <<x>>

AccessToken(g) == [kind |-> "access", gen |-> g]
RefreshToken(g) == [kind |-> "refresh", gen |-> g]

\* TokenResponse { access_token, refresh_token }
TokenResponse(g) ==
    [access_token |-> AccessToken(g), refresh_token |-> RefreshToken(g)]

\* Session { uuid, username, email, is_admin, access_token, refresh_token }
Session(g) ==
    [uuid |-> "uuid-1", username |-> "alice", email |-> "alice@example.org",
     is_admin |-> TRUE,
     access_token |-> AccessToken(g), refresh_token |-> RefreshToken(g)]

\* enum Auth { Authorized, Unauthorized, Ephemeral { access_token } }
Authorized == [mode |-> "Authorized"]
Unauthorized == [mode |-> "Unauthorized"]
Ephemeral(tok) == [mode |-> "Ephemeral", access_token |-> tok]

\* ErrorResponse { message, status }
ErrorResponse(m, s) == [message |-> m, status |-> s]

\* Result<R, ErrorResponse>
Ok(v) == [ok |-> TRUE, value |-> v]
Err(e) == [ok |-> FALSE, err |-> e]

\* Result<Result<R, ErrorResponse>, ErrorResponse> of send_once: the outer
\* Err is what the ? operator propagates.
Outer(e) == [outer |-> TRUE, err |-> e]
Inner(r) == [outer |-> FALSE, res |-> r]

\* ------------------------------------------------------------------------
\* The environment: the calls the application makes, and the network
\* ------------------------------------------------------------------------

\* The calls the pages make (admin.rs:117, admin.rs:171,
\* product_search.rs:857, session.rs:45), as request_json's arguments.
CallInputs(issued) ==
    { [path |-> "products/x", auth |-> Authorized, method |-> "DELETE",
       body |-> None],
      [path |-> "products", auth |-> Authorized, method |-> "POST",
       body |-> Some([json |-> "product"])],
      [path |-> "products", auth |-> Authorized, method |-> "POST",
       body |-> Some([json |-> "unserializable"])],
      [path |-> "products/search", auth |-> Unauthorized, method |-> "POST",
       body |-> Some([json |-> "query"])] }
    \cup
    { [path |-> "users/me", auth |-> Ephemeral(AccessToken(g)),
       method |-> "GET", body |-> None] : g \in 1..issued }

\* Whether req.json(&body) / req.build() succeeds: a property of the
\* arguments, the same on every send of the same call.
Buildable(body) == body # Some([json |-> "unserializable"])

OkStatuses == {200}
ErrorStatuses == {401, 403}

\* Response bodies: a document of the type R the caller asked for, the
\* {"error": ...} document of the API, or something that is neither.
PayloadBody == [type |-> "R", value |-> [data |-> "payload"]]
ErrorBody == [type |-> "GenericError", error |-> "denied"]
GarbageBody == [type |-> "garbage"]
TokenBody(g) == [type |-> "TokenResponse", value |-> TokenResponse(g)]

\* struct UserResponse { uuid, username, email, is_admin } of GET users/me
UserResponse ==
    [uuid |-> "uuid-7", username |-> "bob", email |-> "bob@example.org",
     is_admin |-> FALSE]
ProfileBody == [type |-> "R", value |-> UserResponse]

NetworkError == [arrived |-> FALSE]
Response(s, b) == [arrived |-> TRUE, status |-> s, body |-> b]

\* What req.send().await may yield for a request of request_json.
ApiOutcomes ==
    {NetworkError}
    \cup { Response(s, b) : s \in OkStatuses \cup ErrorStatuses,
                            b \in {PayloadBody, ErrorBody, GarbageBody} }

\* The same for a request to path: users/me answers with a profile.
ApiOutcomesFor(path) ==
    IF path = "users/me"
    THEN {NetworkError}
         \cup { Response(s, b) : s \in OkStatuses \cup ErrorStatuses,
                                 b \in {ProfileBody, ErrorBody, GarbageBody} }
    ELSE ApiOutcomes

\* The status of the response req.send().await yielded, if it yielded one.
Obtained(outcome) == IF outcome.arrived THEN Some(outcome.status) ELSE None

\* What the token endpoint may yield; a successful exchange issues the next
\* token pair.
TokenOutcomes(issued) ==
    {NetworkError}
    \cup { Response(s, b) : s \in ErrorStatuses, b \in {ErrorBody, GarbageBody} }
    \cup { Response(s, GarbageBody) : s \in OkStatuses }
    \cup (IF issued < MaxTokens
             THEN { Response(s, TokenBody(issued + 1)) : s \in OkStatuses }
             ELSE {})

\* ------------------------------------------------------------------------
\* State
\* ------------------------------------------------------------------------

VARIABLES
    storage,    \* LocalStorage: for each key, None or Some(stored JSON)
    location,   \* window.location.href as last assigned
    issued,     \* number of token pairs issued so far
    task        \* per task: the request_json call it runs, and its record

vars == <<storage, location, issued, task>>

\* const SESSION_KEY
SESSION_KEY == "session_v1"

\* The keys LogoutButton deletes (logout.rs:13-15).
LogoutKeys == {"username", "access_token", "refresh_token"}

StorageKeys == {SESSION_KEY} \cup LogoutKeys

\* LocalStorage::set, LocalStorage::delete
LocalStorageSet(st, key, json) == [st EXCEPT ![key] = Some(json)]
LocalStorageDelete(st, key) == [st EXCEPT ![key] = None]

\* The fields of struct Session, in declaration order.
SessionFields ==
    <<"uuid", "username", "email", "is_admin", "access_token", "refresh_token">>

\* A Serialize that writes the uuid under the name "id".
ToJsonRenamed(s) ==
    << <<"id", s.uuid>>, <<"username", s.username>>, <<"email", s.email>>,
       <<"is_admin", s.is_admin>>, <<"access_token", s.access_token>>,
       <<"refresh_token", s.refresh_token>> >>

\* serde's Serialize for Session: a JSON object, one member per field, as
\* the sequence of its <<name, value>> members.
ToJson(s) ==
    << <<"uuid", s.uuid>>, <<"username", s.username>>, <<"email", s.email>>,
       <<"is_admin", s.is_admin>>, <<"access_token", s.access_token>>,
       <<"refresh_token", s.refresh_token>> >>

\* The member of a JSON object under a name.
HasMember(doc, name) == \E i \in 1..Len(doc) : doc[i][1] = name
Member(doc, name) == doc[CHOOSE i \in 1..Len(doc) : doc[i][1] = name][2]

\* A Deserialize that fills a missing member with the empty string.
FromJsonDefaulting(doc) ==
    Some([i \in {SessionFields[j] : j \in 1..Len(SessionFields)} |->
            IF HasMember(doc, i) THEN Member(doc, i) ELSE ""])

\* serde's Deserialize for Session: every field must be present.
FromJson(doc) ==
    IF \A i \in 1..Len(SessionFields) : HasMember(doc, SessionFields[i])
    THEN Some([uuid |-> Member(doc, "uuid"),
               username |-> Member(doc, "username"),
               email |-> Member(doc, "email"),
               is_admin |-> Member(doc, "is_admin"),
               access_token |-> Member(doc, "access_token"),
               refresh_token |-> Member(doc, "refresh_token")])
    ELSE None

\* A value under SESSION_KEY that is not a Session: one written by another
\* version of the page, without the refresh_token member.
StaleDocument == SubSeq(ToJson(Session(1)), 1, 5)

\* Session::load: LocalStorage::get(SESSION_KEY).ok()
SessionLoad(st) ==
    IF st[SESSION_KEY] = None THEN None ELSE FromJson(st[SESSION_KEY][1])

\* Session::save
SessionSave(st, s) == LocalStorageSet(st, SESSION_KEY, ToJson(s))

\* A clear that deletes some other key and leaves the Session in place.
SessionClearOtherKey(st) == LocalStorageDelete(st, "access_token")

\* Session::clear
SessionClear(st) == LocalStorageDelete(st, SESSION_KEY)

\* response.ok(): status in 200..299
RespOk(resp) == resp.status >= 200 /\ resp.status <= 299

Idle ==
    [pc |-> "idle", path |-> "", auth |-> Unauthorized, method |-> "",
     body |-> None,
     err |-> None,          \* the err bound at request.rs:110
     ret |-> None,          \* what request_json returned
     sent |-> <<>>,         \* the requests send_once put on the network
     sends |-> 0,           \* calls of send_once
     refreshes |-> 0,       \* calls of refresh_access_token
     exchanges |-> <<>>,    \* the token-exchange requests sent
     refreshed |-> None,    \* Some(Ok(tokens)) / Some(Err(e)) of the refresh
     first |-> None,        \* classified result of the first send_once
     retry |-> None,        \* classified result of the second send_once
     cleared |-> FALSE,     \* the call ran Session::clear
     redirected |-> FALSE,  \* the call set location.href to /login
     responses |-> <<>>,    \* per send_once: Some(status received) or None
     login |-> None,        \* Some(tokens) when Session::log_in makes the call
     logged |-> None]       \* what Session::log_in returned

\* ------------------------------------------------------------------------
\* send_once
\* ------------------------------------------------------------------------

\* A header step that sends without Authorization when no Session is stored.
AuthHeaderUnchecked(auth, st) ==
    IF auth = Authorized
    THEN IF SessionLoad(st) = None
         THEN Ok(None)
         ELSE Ok(Some(SessionLoad(st)[1].access_token))
    ELSE IF auth.mode = "Ephemeral"
         THEN Ok(Some(auth.access_token))
         ELSE Ok(None)

\* A header step in which Ephemeral reads the stored Session's token, as
\* Authorized does, instead of using the token it was given.
AuthHeaderEphemeralFromStore(auth, st) ==
    IF auth.mode # "Unauthorized"
    THEN IF SessionLoad(st) = None
         THEN Err(ErrorResponse("No session in storage", 0))
         ELSE Ok(Some(SessionLoad(st)[1].access_token))
    ELSE Ok(None)

\* request.rs:53-66: the Authorization header for the auth mode, or the
\* error of a missing Session.
AuthHeader(auth, st) ==
    IF auth = Authorized
    THEN IF SessionLoad(st) = None
         THEN Err(ErrorResponse("No session in storage", 0))
         ELSE Ok(Some(SessionLoad(st)[1].access_token))
    ELSE IF auth.mode = "Ephemeral"
         THEN Ok(Some(auth.access_token))
         ELSE Ok(None)

\* request.rs:49-78: send_once up to req.send(): the request it puts on the
\* network, or the error it returns before sending anything.
BuildRequest(path, auth, method, body, st) ==
    LET hdr == AuthHeader(auth, st) IN
    IF ~hdr.ok THEN Outer(hdr.err)
    ELSE IF ~Buildable(body)
         THEN Outer(ErrorResponse("Bad JSON", 0))
         ELSE Inner([path |-> path, method |-> method, body |-> body,
                     content_type |-> Some("application/json"),
                     authorization |-> hdr.value])

\* A classification that reports an undecodable 2xx body with status 0.
ClassifyBadJsonZero(outcome) ==
    IF ~outcome.arrived
    THEN Outer(ErrorResponse("Network error", 0))
    ELSE IF RespOk(outcome)
         THEN IF outcome.body.type = "R"
              THEN Inner(Ok(outcome.body.value))
              ELSE Outer(ErrorResponse("Bad JSON", 0))
         ELSE IF outcome.body.type = "GenericError"
              THEN Inner(Err(ErrorResponse(outcome.body.error, outcome.status)))
              ELSE Inner(Err(ErrorResponse("Bad JSON", outcome.status)))

\* request.rs:80-105: send_once from the outcome of req.send().await on.
Classify(outcome) ==
    IF ~outcome.arrived
    THEN Outer(ErrorResponse("Network error", 0))
    ELSE IF RespOk(outcome)
         THEN IF outcome.body.type = "R"
              THEN Inner(Ok(outcome.body.value))
              ELSE Outer(ErrorResponse("Bad JSON", outcome.status))
         ELSE IF outcome.body.type = "GenericError"
              THEN Inner(Err(ErrorResponse(outcome.body.error, outcome.status)))
              ELSE Inner(Err(ErrorResponse("Bad JSON", outcome.status)))

\* ------------------------------------------------------------------------
\* refresh_access_token
\* ------------------------------------------------------------------------

\* A refresh that sends the exchange with empty credentials when no
\* Session is stored.
RefreshRequestUnchecked(st) ==
    Ok([path |-> "auth/token", method |-> "POST",
        content_type |-> Some("application/json"),
        authorization |-> None,
        body |-> Some([grant_type |-> "refresh_token",
                       username |-> IF SessionLoad(st) = None THEN ""
                                    ELSE SessionLoad(st)[1].username,
                       refresh_token |-> IF SessionLoad(st) = None
                                         THEN RefreshToken(0)
                                         ELSE SessionLoad(st)[1].refresh_token])])

\* A refresh that authenticates the exchange with the expired access token.
RefreshRequestWithBearer(st) ==
    IF SessionLoad(st) = None
    THEN Err(ErrorResponse("No session in storage", 0))
    ELSE Ok([path |-> "auth/token", method |-> "POST",
             content_type |-> Some("application/json"),
             authorization |-> Some(SessionLoad(st)[1].access_token),
             body |-> Some([grant_type |-> "refresh_token",
                            username |-> SessionLoad(st)[1].username,
                            refresh_token |-> SessionLoad(st)[1].refresh_token])])

\* request.rs:140-164: the token-exchange request built from the stored
\* Session, or the error of a missing Session.
RefreshRequest(st) ==
    IF SessionLoad(st) = None
    THEN Err(ErrorResponse("No session in storage", 0))
    ELSE Ok([path |-> "auth/token", method |-> "POST",
             content_type |-> Some("application/json"),
             authorization |-> None,
             body |-> Some([grant_type |-> "refresh_token",
                            username |-> SessionLoad(st)[1].username,
                            refresh_token |-> SessionLoad(st)[1].refresh_token])])

\* request.rs:165-193: the result of the exchange. On success the code
\* assigns the two tokens to its local copy of the Session and returns
\* Ok(()); the value carried by Ok here is that pair.
RefreshResult(outcome) ==
    IF ~outcome.arrived
    THEN Err(ErrorResponse("Network error", 0))
    ELSE IF ~RespOk(outcome)
         THEN IF outcome.body.type = "GenericError"
              THEN Err(ErrorResponse(outcome.body.error, outcome.status))
              ELSE Err(ErrorResponse("Bad JSON", outcome.status))
         ELSE IF outcome.body.type = "TokenResponse"
              THEN Ok(outcome.body.value)
              ELSE Err(ErrorResponse("Bad JSON", 0))

\* ------------------------------------------------------------------------
\* request_json
\* ------------------------------------------------------------------------

\* The guard without the test of the auth mode.
NeedsRefreshAnyAuth(err, auth) == err.status = 401

\* The guard without the test of the status.
NeedsRefreshAnyStatus(err, auth) == auth = Authorized

\* request.rs:110: the guard of the refresh arm.
NeedsRefresh(err, auth) == err.status = 401 /\ auth = Authorized

\* The retry's success dropped in favour of the first error.
RetryResultAlwaysFirst(r, err) == Err(err)

\* The retry's own error returned.
RetryResultOwnError(r, err) == IF r.ok THEN Ok(r.value) ELSE Err(r.err)

\* request.rs:130-133: what the call returns for the retry's inner result.
RetryResult(r, err) == IF r.ok THEN Ok(r.value) ELSE Err(err)

\* A retry that leaves the body out.
RetryArgsNoBody(c) ==
    [path |-> c.path, auth |-> c.auth, method |-> c.method, body |-> None]

\* request.rs:130: the arguments of the second send_once.
RetryArgs(c) ==
    [path |-> c.path, auth |-> c.auth, method |-> c.method, body |-> c.body]

\* A return that replaces the message of an error by a generic one.
ReturnedGeneric(c, r) ==
    [c EXCEPT !.pc = "done",
              !.ret = Some(IF r.ok THEN r
                           ELSE Err(ErrorResponse("Request failed",
                                                  r.err.status)))]

\* The call returns r.
Returned(c, r) == [c EXCEPT !.pc = "done", !.ret = Some(r)]

\* A refresh failure handled without the redirect.
RefreshFailedNoRedirect(c, err) ==
    Returned([c EXCEPT !.cleared = TRUE], Err(err))

\* request.rs:111-125: the refresh failed: clear the Session, go to /login,
\* return the first error.
RefreshFailed(c, err) ==
    Returned([c EXCEPT !.cleared = TRUE, !.redirected = TRUE], Err(err))

\* A retry that is sent and not awaited: the call returns the first error
\* while the second request is still in flight.
SendRetryNoWait(c, st) ==
    LET a == RetryArgs(c)
        b == BuildRequest(a.path, a.auth, a.method, a.body, st)
        c1 == [c EXCEPT !.sends = @ + 1] IN
    IF b.outer
    THEN Returned([c1 EXCEPT !.retry = Some(b),
                             !.responses = Append(@, None)], Err(b.err))
    ELSE Returned([c1 EXCEPT !.sent = Append(@, b.res)], Err(c.err[1]))

\* request.rs:126-133, up to the await in the second send_once.
SendRetry(c, st) ==
    LET a == RetryArgs(c)
        b == BuildRequest(a.path, a.auth, a.method, a.body, st)
        c1 == [c EXCEPT !.sends = @ + 1] IN
    IF b.outer
    THEN Returned([c1 EXCEPT !.retry = Some(b),
                             !.responses = Append(@, None)], Err(b.err))
    ELSE [c1 EXCEPT !.pc = "await_retry", !.sent = Append(@, b.res)]

\* A page load: LocalStorage holds what earlier page loads left under
\* SESSION_KEY; no code of the program writes the other keys.
Init ==
    /\ \E v \in {None, Some(ToJson(Session(1))), Some(StaleDocument)} :
          storage = [k \in StorageKeys |-> IF k = SESSION_KEY THEN v ELSE None]
    /\ location = "/admin"
    /\ issued = 1
    /\ task = [t \in Tasks |-> Idle]

\* request.rs:108, up to the await in the first send_once.
Call(t) ==
    /\ task[t].pc = "idle"
    /\ \E in \in CallInputs(issued) :
         LET b == BuildRequest(in.path, in.auth, in.method, in.body, storage)
             c == [task[t] EXCEPT !.path = in.path, !.auth = in.auth,
                                  !.method = in.method, !.body = in.body,
                                  !.sends = 1] IN
         task' = [task EXCEPT ![t] =
                    IF b.outer
                    THEN Returned([c EXCEPT !.first = Some(b),
                                            !.responses = <<None>>],
                                  Err(b.err))
                    ELSE [c EXCEPT !.pc = "await_first",
                                   !.sent = <<b.res>>]]
    /\ UNCHANGED <<storage, location, issued>>

\* request.rs:108-125 and 135: request_json from the outcome of the first
\* send on: the call's record and the store after it; on a 401 of an
\* Authorized call refresh_access_token runs up to its await.
AfterFirst(c0, st, outcome) ==
    LET r == Classify(outcome)
        c == [c0 EXCEPT !.first = Some(r),
                        !.responses = Append(@, Obtained(outcome))] IN
    IF r.outer
    THEN [c |-> Returned(c, Err(r.err)), st |-> st]
    ELSE IF r.res.ok
    THEN [c |-> Returned(c, Ok(r.res.value)), st |-> st]
    ELSE IF NeedsRefresh(r.res.err, c.auth)
    THEN LET q == RefreshRequest(st)
             c1 == [c EXCEPT !.err = Some(r.res.err),
                             !.refreshes = @ + 1] IN
         IF q.ok
         THEN [c |-> [c1 EXCEPT !.pc = "await_refresh",
                                !.exchanges = Append(@, q.value)],
               st |-> st]
         ELSE [c |-> RefreshFailed([c1 EXCEPT !.refreshed = Some(q)],
                                   r.res.err),
               st |-> SessionClear(st)]
    ELSE [c |-> Returned(c, Err(r.res.err)), st |-> st]

\* A format that leaves the status out.
FormatMessageOnly(err) == err.message

\* format!("{}: {}", err.status, err.message)
Format(err) == ToString(err.status) \o ": " \o err.message

\* A Session assembled with the two tokens exchanged.
NewSessionSwapped(user, access_token, refresh_token) ==
    [uuid |-> user.uuid, username |-> user.username, email |-> user.email,
     is_admin |-> user.is_admin,
     access_token |-> refresh_token, refresh_token |-> access_token]

\* session.rs:59-66: the Session log_in assembles.
NewSession(user, access_token, refresh_token) ==
    [uuid |-> user.uuid, username |-> user.username, email |-> user.email,
     is_admin |-> user.is_admin,
     access_token |-> access_token, refresh_token |-> refresh_token]

\* A log_in that stores the tokens before it looks at the profile fetch.
LogInResumeEagerSave(c, st, saved) ==
    IF c.login = None \/ c.pc # "done"
    THEN [c |-> c, st |-> st]
    ELSE IF ~c.ret[1].ok
    THEN [c |-> [c EXCEPT !.logged = Some(Err(Format(c.ret[1].err)))],
          st |-> SessionSave(st, NewSession(UserResponse,
                                            c.login[1].access_token,
                                            c.login[1].refresh_token))]
    ELSE LET session == NewSession(c.ret[1].value, c.login[1].access_token,
                                   c.login[1].refresh_token) IN
         [c |-> [c EXCEPT !.logged = Some(Ok(session))],
          st |-> SessionSave(st, session)]

\* session.rs:54-69: Session::log_in from the return of its request_json
\* call on. saved: whether LocalStorage::set succeeds (it fails when the
\* browser refuses the write, e.g. quota exceeded).
LogInResume(c, st, saved) ==
    IF c.login = None \/ c.pc # "done"
    THEN [c |-> c, st |-> st]
    ELSE IF ~c.ret[1].ok
    THEN [c |-> [c EXCEPT !.logged = Some(Err(Format(c.ret[1].err)))],
          st |-> st]
    ELSE LET session == NewSession(c.ret[1].value, c.login[1].access_token,
                                   c.login[1].refresh_token) IN
         IF saved
         THEN [c |-> [c EXCEPT !.logged = Some(Ok(session))],
               st |-> SessionSave(st, session)]
         ELSE [c |-> [c EXCEPT !.logged = Some(Err("StorageError"))],
               st |-> st]

\* A first-response step with a single-flight refresh: while another call
\* is refreshing, a 401 is returned to the caller without a refresh of its
\* own.
RecvFirstSingleFlight(t) ==
    /\ task[t].pc = "await_first"
    /\ \E outcome \in ApiOutcomesFor(task[t].path),
          saved \in IF task[t].login = None THEN {TRUE} ELSE BOOLEAN :
         LET busy == \E u \in Tasks \ {t} : task[u].pc = "await_refresh"
             a0 == AfterFirst(IF busy
                              THEN [task[t] EXCEPT !.auth = Unauthorized]
                              ELSE task[t],
                              storage, outcome)
             a == [a0 EXCEPT !.c.auth = task[t].auth]
             b == LogInResume(a.c, a.st, saved) IN
         /\ task' = [task EXCEPT ![t] = b.c]
         /\ storage' = b.st
         /\ location' = IF b.c.redirected THEN "/login" ELSE location
    /\ UNCHANGED issued

\* The first response arrives: request_json runs on from it and, when it
\* returns to Session::log_in, so does log_in, with no await in between.
RecvFirst(t) ==
    /\ task[t].pc = "await_first"
    /\ \E outcome \in ApiOutcomesFor(task[t].path),
          saved \in IF task[t].login = None THEN {TRUE} ELSE BOOLEAN :
         LET a == AfterFirst(task[t], storage, outcome)
             b == LogInResume(a.c, a.st, saved) IN
         /\ task' = [task EXCEPT ![t] = b.c]
         /\ storage' = b.st
         /\ location' = IF b.c.redirected THEN "/login" ELSE location
    /\ UNCHANGED issued

\* A refresh that, on success, saves a Session rebuilt from the exchange
\* alone: the username it sent and the tokens it received.
RecvRefreshRebuild(t) ==
    /\ task[t].pc = "await_refresh"
    /\ \E outcome \in TokenOutcomes(issued) :
         LET r == RefreshResult(outcome)
             c == [task[t] EXCEPT !.refreshed = Some(r)] IN
         /\ issued' = IF r.ok THEN issued + 1 ELSE issued
         /\ IF r.ok
            THEN LET st == SessionSave(storage,
                              [uuid |-> "",
                               username |-> c.exchanges[1].body[1].username,
                               email |-> "", is_admin |-> FALSE,
                               access_token |-> r.value.access_token,
                               refresh_token |-> r.value.refresh_token]) IN
                 /\ task' = [task EXCEPT ![t] = SendRetry(c, st)]
                 /\ storage' = st
            ELSE /\ task' = [task EXCEPT ![t] = RefreshFailed(c, c.err[1])]
                 /\ storage' = SessionClear(storage)
         /\ location' = IF task'[t].redirected THEN "/login" ELSE location

\* A refresh that sends its exchange once more when the first attempt
\* fails.
RecvRefreshSecondAttempt(t) ==
    /\ task[t].pc = "await_refresh"
    /\ \E outcome \in TokenOutcomes(issued) :
         LET r == RefreshResult(outcome)
             c == [task[t] EXCEPT !.refreshed = Some(r)] IN
         /\ issued' = IF r.ok THEN issued + 1 ELSE issued
         /\ IF r.ok
            THEN /\ task' = [task EXCEPT ![t] = SendRetry(c, storage)]
                 /\ UNCHANGED storage
            ELSE IF Len(c.exchanges) = 1
            THEN /\ task' = [task EXCEPT ![t] =
                               [c EXCEPT !.exchanges =
                                            Append(@, c.exchanges[1])]]
                 /\ UNCHANGED storage
            ELSE /\ task' = [task EXCEPT ![t] = RefreshFailed(c, c.err[1])]
                 /\ storage' = SessionClear(storage)
         /\ location' = IF task'[t].redirected THEN "/login" ELSE location

\* A refresh arm that goes on to the retry after any 2xx answer of the
\* token endpoint, decodable or not.
RecvRefreshAny2xx(t) ==
    /\ task[t].pc = "await_refresh"
    /\ \E outcome \in TokenOutcomes(issued) :
         LET r == RefreshResult(outcome)
             c == [task[t] EXCEPT !.refreshed = Some(r)] IN
         /\ issued' = IF r.ok THEN issued + 1 ELSE issued
         /\ IF r.ok \/ (outcome.arrived /\ RespOk(outcome))
            THEN /\ task' = [task EXCEPT ![t] = SendRetry(c, storage)]
                 /\ UNCHANGED storage
            ELSE /\ task' = [task EXCEPT ![t] = RefreshFailed(c, c.err[1])]
                 /\ storage' = SessionClear(storage)
         /\ location' = IF task'[t].redirected THEN "/login" ELSE location

\* request.rs:111-130: the token exchange completes; the refresh returns
\* and either the call gives up or the second send_once runs up to its
\* await. The refreshed tokens live in refresh_access_token's local Session
\* only: the function returns without Session::save, so the store keeps
\* what it held.
RecvRefresh(t) ==
    /\ task[t].pc = "await_refresh"
    /\ \E outcome \in TokenOutcomes(issued) :
         LET r == RefreshResult(outcome)
             c == [task[t] EXCEPT !.refreshed = Some(r)] IN
         /\ issued' = IF r.ok THEN issued + 1 ELSE issued
         /\ IF r.ok
            THEN /\ task' = [task EXCEPT ![t] = SendRetry(c, storage)]
                 /\ UNCHANGED storage
            ELSE /\ task' = [task EXCEPT ![t] = RefreshFailed(c, c.err[1])]
                 /\ storage' = SessionClear(storage)
         /\ location' = IF task'[t].redirected THEN "/login" ELSE location

\* A retry arm that refreshes and retries again on another 401.
RecvRetryAgain(t) ==
    /\ task[t].pc = "await_retry"
    /\ \E outcome \in ApiOutcomesFor(task[t].path) :
         LET r == Classify(outcome)
             c == [task[t] EXCEPT !.retry = Some(r),
                                  !.responses = Append(@, Obtained(outcome))] IN
         task' = [task EXCEPT ![t] =
                    IF r.outer
                    THEN Returned(c, Err(r.err))
                    ELSE IF ~r.res.ok /\ r.res.err.status = 401
                    THEN [c EXCEPT !.pc = "await_refresh",
                                   !.refreshes = @ + 1]
                    ELSE Returned(c, RetryResult(r.res, c.err[1]))]
    /\ UNCHANGED <<storage, location, issued>>

\* A retry arm that returns the original error for every failure of the
\* second send_once.
RecvRetryOriginalError(t) ==
    /\ task[t].pc = "await_retry"
    /\ \E outcome \in ApiOutcomesFor(task[t].path) :
         LET r == Classify(outcome)
             c == [task[t] EXCEPT !.retry = Some(r),
                                  !.responses = Append(@, Obtained(outcome))] IN
         task' = [task EXCEPT ![t] =
                    IF r.outer
                    THEN Returned(c, Err(c.err[1]))
                    ELSE Returned(c, RetryResult(r.res, c.err[1]))]
    /\ UNCHANGED <<storage, location, issued>>

\* A retry arm that sends the request again after a transport failure.
RecvRetryResend(t) ==
    /\ task[t].pc = "await_retry"
    /\ \E outcome \in ApiOutcomesFor(task[t].path) :
         LET r == Classify(outcome)
             c == [task[t] EXCEPT !.retry = Some(r),
                                  !.responses = Append(@, Obtained(outcome))] IN
         task' = [task EXCEPT ![t] =
                    IF r.outer
                    THEN IF ~outcome.arrived /\ c.sends < 4
                         THEN [c EXCEPT !.sends = @ + 1,
                                        !.sent = Append(@, c.sent[2])]
                         ELSE Returned(c, Err(r.err))
                    ELSE Returned(c, RetryResult(r.res, c.err[1]))]
    /\ UNCHANGED <<storage, location, issued>>

\* request.rs:130-133: the retry's response arrives.
RecvRetry(t) ==
    /\ task[t].pc = "await_retry"
    /\ \E outcome \in ApiOutcomesFor(task[t].path) :
         LET r == Classify(outcome)
             c == [task[t] EXCEPT !.retry = Some(r),
                                  !.responses = Append(@, Obtained(outcome))] IN
         task' = [task EXCEPT ![t] =
                    IF r.outer
                    THEN Returned(c, Err(r.err))
                    ELSE Returned(c, RetryResult(r.res, c.err[1]))]
    /\ UNCHANGED <<storage, location, issued>>

\* The caller takes the result; the task may make another call.
Return(t) ==
    /\ task[t].pc = "done"
    /\ task' = [task EXCEPT ![t] = Idle]
    /\ UNCHANGED <<storage, location, issued>>

\* session.rs:36-53: Session::log_in(access_token, refresh_token), up to
\* the await in its request_json call. The two tokens are the pair the
\* token endpoint issued to the login or registration page
\* (login.rs:57-67, register.rs:59-69).
LogIn(t) ==
    /\ task[t].pc = "idle"
    /\ issued < MaxTokens
    /\ issued' = issued + 1
    /\ LET tokens == TokenResponse(issued + 1)
           auth == Ephemeral(tokens.access_token)
           b == BuildRequest("users/me", auth, "GET", None, storage)
           c == [task[t] EXCEPT !.path = "users/me", !.auth = auth,
                                !.method = "GET", !.body = None,
                                !.sends = 1, !.login = Some(tokens)] IN
       task' = [task EXCEPT ![t] =
                  IF b.outer
                  THEN LogInResume(
                          Returned([c EXCEPT !.first = Some(b),
                                             !.responses = <<None>>],
                                   Err(b.err)),
                          storage, TRUE).c
                  ELSE [c EXCEPT !.pc = "await_first", !.sent = <<b.res>>]]
    /\ UNCHANGED <<storage, location>>

\* logout.rs:11-21: the click handler of LogoutButton.
Logout ==
    /\ storage' = LocalStorageDelete(
                     LocalStorageDelete(
                       LocalStorageDelete(storage, "username"),
                       "access_token"),
                     "refresh_token")
    /\ location' = "/"
    /\ UNCHANGED <<issued, task>>

Next ==
    \/ \E t \in Tasks :
          \/ Call(t)
          \/ RecvFirst(t)
          \/ RecvRefresh(t)
          \/ RecvRetry(t)
          \/ Return(t)
          \/ LogIn(t)
    \/ Logout

Spec == Init /\ [][Next]_vars

\* ------------------------------------------------------------------------
\* Properties
\* ------------------------------------------------------------------------

\* The first send_once of call c failed (returned an error on either layer).
FirstFailed(c) ==
    /\ c.first # None
    /\ (c.first[1].outer \/ ~c.first[1].res.ok)

\* The error of the failed first send_once.
FirstErr(c) ==
    IF c.first[1].outer THEN c.first[1].err ELSE c.first[1].res.err

\* The first send of c got a response classified as an error of status 401.
First401(c) ==
    /\ c.first # None
    /\ ~c.first[1].outer
    /\ ~c.first[1].res.ok
    /\ c.first[1].res.err.status = 401

RefreshSucceeded(c) == c.refreshed # None /\ c.refreshed[1].ok
RefreshDidFail(c) == c.refreshed # None /\ ~c.refreshed[1].ok

\* The second send_once of c failed on either layer.
RetryFailed(c) ==
    /\ c.retry # None
    /\ (c.retry[1].outer \/ ~c.retry[1].res.ok)

\* C1: an Authorized call whose first response is classified as a 401 error
\* makes exactly one refresh attempt and at most one further send; no call
\* makes a second refresh or a third send.
C1_OneRefreshOneRetry ==
    \A t \in Tasks :
       LET c == task[t] IN
       /\ c.refreshes <= 1
       /\ Len(c.exchanges) <= 1
       /\ c.sends <= 2
       /\ Len(c.sent) <= 2
       /\ (c.auth = Authorized /\ First401(c)) => c.refreshes = 1

C1_Witness ==
    \E t \in Tasks :
       /\ task[t].pc = "done"
       /\ task[t].auth = Authorized
       /\ First401(task[t])
       /\ task[t].refreshes = 1
       /\ Len(task[t].sent) = 2
       /\ RetryFailed(task[t])
       /\ ~task[t].retry[1].outer
       /\ task[t].retry[1].res.err.status = 401

\* C2: a call made with Auth::Unauthorized or Auth::Ephemeral never
\* refreshes, never sends twice, never clears the Session and never
\* redirects, whatever the status; it returns the classified result of its
\* single send.
C2_NoRecoveryWithoutAuthorized ==
    \A t \in Tasks :
       LET c == task[t] IN
       (c.pc # "idle" /\ c.auth # Authorized) =>
          /\ c.refreshes = 0
          /\ c.exchanges = <<>>
          /\ c.sends = 1
          /\ Len(c.sent) <= 1
          /\ ~c.cleared
          /\ ~c.redirected
          /\ c.pc = "done" =>
                c.ret = Some(IF c.first[1].outer THEN Err(c.first[1].err)
                                                 ELSE c.first[1].res)

C2_Witness ==
    \E t \in Tasks :
       /\ task[t].pc = "done"
       /\ task[t].auth # Authorized
       /\ First401(task[t])
       /\ task[t].ret = Some(Err(FirstErr(task[t])))

\* C3: an Authorized call whose first send fails with a status other than
\* 401 attempts no refresh and returns that error at once.
C3_Non401ReturnedImmediately ==
    \A t \in Tasks :
       LET c == task[t] IN
       (c.auth = Authorized /\ FirstFailed(c) /\ FirstErr(c).status # 401) =>
          /\ c.pc = "done"
          /\ c.refreshes = 0
          /\ c.exchanges = <<>>
          /\ c.sends = 1
          /\ c.ret = Some(Err(FirstErr(c)))

C3_Witness ==
    \E t \in Tasks :
       /\ task[t].auth = Authorized
       /\ FirstFailed(task[t])
       /\ ~task[t].first[1].outer
       /\ FirstErr(task[t]).status = 403
       /\ task[t].pc = "done"

\* C4: when an Authorized call gets a 401, the refresh succeeds and the
\* retried send succeeds, the call returns the retried send's result.
C4_RetrySuccessReturned ==
    \A t \in Tasks :
       LET c == task[t] IN
       (c.auth = Authorized /\ First401(c) /\ RefreshSucceeded(c)
          /\ c.retry # None /\ ~RetryFailed(c)) =>
          /\ c.pc = "done"
          /\ c.ret = Some(Ok(c.retry[1].res.value))

C4_Witness ==
    \E t \in Tasks :
       /\ task[t].pc = "done"
       /\ First401(task[t])
       /\ RefreshSucceeded(task[t])
       /\ task[t].retry # None
       /\ ~RetryFailed(task[t])
       /\ task[t].ret = Some(Ok(PayloadBody.value))

\* C5 as stated: when the refresh succeeded and the retried call failed in
\* any way, the call returns the original 401 error.
C5_AnyRetryFailureReturnsOriginal ==
    \A t \in Tasks :
       LET c == task[t] IN
       (c.pc = "done" /\ First401(c) /\ RefreshSucceeded(c) /\ RetryFailed(c))
          => c.ret = Some(Err(FirstErr(c)))

\* C5, amended: when the refresh succeeded and the retried send got a
\* non-2xx response, the call returns the original 401 error; when the
\* retried send_once failed before classifying a response as an API error
\* (no Session at resend time, transport failure, undecodable 2xx body), the
\* call returns that retry's own error.
C5_RetryFailureResult ==
    \A t \in Tasks :
       LET c == task[t] IN
       (c.pc = "done" /\ First401(c) /\ RefreshSucceeded(c) /\ RetryFailed(c))
          => IF c.retry[1].outer
             THEN c.ret = Some(Err(c.retry[1].err))
             ELSE c.ret = Some(Err(FirstErr(c)))

C5_Witness ==
    \E t \in Tasks :
       LET c == task[t] IN
       /\ c.pc = "done"
       /\ First401(c)
       /\ RefreshSucceeded(c)
       /\ RetryFailed(c)
       /\ ~c.retry[1].outer
       /\ c.retry[1].res.err # FirstErr(c)
       /\ c.ret = Some(Err(FirstErr(c)))

\* C6: when an Authorized call gets a 401 and the refresh fails, then at the
\* return of the call the stored Session is absent, no retry was sent and
\* the error returned is the original 401 error.
C6_RefreshFailureClearsSession ==
    [][\A t \in Tasks :
          (task[t].pc # "done" /\ task'[t].pc = "done"
             /\ RefreshDidFail(task'[t])) =>
             /\ First401(task'[t])
             /\ SessionLoad(storage') = None
             /\ task'[t].sends = 1
             /\ Len(task'[t].sent) = 1
             /\ task'[t].retry = None
             /\ task'[t].ret = Some(Err(FirstErr(task'[t])))]_vars

C6_Witness ==
    \E t \in Tasks :
       /\ task[t].pc = "done"
       /\ RefreshDidFail(task[t])
       /\ task[t].refreshed[1].err.status = 403
       /\ SessionLoad(storage) = None

\* C7: the pipeline redirects to /login, and clears the Session, if and
\* only if a refresh attempt triggered by an Authorized 401 failed.
C7_ForcedLogoutIffRefreshFailed ==
    [][/\ \A t \in Tasks :
            /\ task'[t].redirected <=>
                  (First401(task'[t]) /\ task'[t].auth = Authorized
                     /\ RefreshDidFail(task'[t]))
            /\ task'[t].cleared <=> task'[t].redirected
       /\ (storage[SESSION_KEY] # None /\ storage'[SESSION_KEY] = None) =>
             \E t \in Tasks : ~task[t].redirected /\ task'[t].redirected]_vars

C7_Witness ==
    \E t \in Tasks :
       /\ task[t].redirected
       /\ task[t].cleared
       /\ RefreshDidFail(task[t])
       /\ task[t].pc = "done"
       /\ ~task[t].refreshed[1].ok
       /\ task[t].refreshed[1].err.status = 0

\* C8: after a successful refresh the persisted Session holds the access
\* token and the refresh token the exchange returned.
C8_RefreshedTokensPersisted ==
    [][\A t \in Tasks :
          (task[t].pc = "await_refresh" /\ RefreshSucceeded(task'[t])) =>
             /\ SessionLoad(storage') # None
             /\ SessionLoad(storage')[1].access_token =
                   task'[t].refreshed[1].value.access_token
             /\ SessionLoad(storage')[1].refresh_token =
                   task'[t].refreshed[1].value.refresh_token]_vars

\* C9: after a successful refresh the retried request carries the access
\* token the exchange returned.
C9_RetryCarriesRefreshedToken ==
    \A t \in Tasks :
       LET c == task[t] IN
       (RefreshSucceeded(c) /\ Len(c.sent) = 2) =>
          c.sent[2].authorization =
             Some(c.refreshed[1].value.access_token)

\* C10: the retried request has the path, method and body of the original
\* and is sent under Authorized mode (with the stored access token).
C10_RetryIdentical ==
    [][\A t \in Tasks :
          (Len(task[t].sent) = 1 /\ Len(task'[t].sent) = 2) =>
             LET r == task'[t].sent[2] IN
             /\ r.path = task[t].path
             /\ r.method = task[t].method
             /\ r.body = task[t].body
             /\ r.path = task[t].sent[1].path
             /\ r.method = task[t].sent[1].method
             /\ r.body = task[t].sent[1].body
             /\ task[t].auth = Authorized
             /\ SessionLoad(storage) # None
             /\ r.authorization = Some(SessionLoad(storage)[1].access_token)]_vars

C10_Witness ==
    \E t \in Tasks :
       /\ Len(task[t].sent) = 2
       /\ task[t].sent[2].body # None
       /\ task[t].sent[2].method = "POST"
       /\ task[t].sent[2].body = task[t].sent[1].body

\* The error send_once returns when Authorized finds no Session.
NoSessionError == ErrorResponse("No session in storage", 0)

\* C11: an Authorized call made while no Session is stored fails at once
\* with the status-0 "no session" error, sends nothing, attempts no refresh
\* and leaves the store as it is.
C11_NoSessionFailsImmediately ==
    [][\A t \in Tasks :
          (task[t].pc = "idle" /\ task'[t].pc # "idle"
             /\ task'[t].auth = Authorized /\ SessionLoad(storage) = None) =>
             /\ task'[t].pc = "done"
             /\ task'[t].ret = Some(Err(NoSessionError))
             /\ task'[t].sent = <<>>
             /\ task'[t].responses = <<None>>
             /\ task'[t].refreshes = 0
             /\ task'[t].exchanges = <<>>
             /\ ~task'[t].cleared
             /\ storage' = storage]_vars

C11_Witness ==
    \E t \in Tasks :
       /\ task[t].pc = "done"
       /\ task[t].auth = Authorized
       /\ task[t].sends = 1
       /\ task[t].sent = <<>>
       /\ task[t].ret = Some(Err(NoSessionError))
       /\ storage[SESSION_KEY] = Some(StaleDocument)

\* The step in which Session::log_in of task t returns.
LogInReturns(t) == task[t].logged = None /\ task'[t].logged # None

\* C12: log_in persists nothing on a failure path: neither the step that
\* starts it nor a step in which it returns an error changes the store.
C12_LogInFailurePersistsNothing ==
    [][\A t \in Tasks :
          /\ (task[t].pc = "idle" /\ task'[t].login # None) =>
                storage' = storage
          /\ (LogInReturns(t) /\ ~task'[t].logged[1].ok) =>
                storage' = storage]_vars

C12_Witness ==
    \E t \in Tasks :
       /\ task[t].logged # None
       /\ ~task[t].logged[1].ok
       /\ ~task[t].ret[1].ok
       /\ task[t].ret[1].err.status = 403
       /\ SessionLoad(storage) = Some(Session(1))

C14_EveryLogInErrorFormatted ==
    \A t \in Tasks :
       LET c == task[t] IN
       (c.logged # None /\ ~c.logged[1].ok) =>
          /\ ~c.ret[1].ok
          /\ c.logged[1].err =
                ToString(c.ret[1].err.status) \o ": " \o c.ret[1].err.message

\* C14, amended: the error log_in returns for a failed profile fetch is
\* "<status>: <message>" of the ErrorResponse request_json returned; when
\* the fetch succeeded and Session::save failed, the error is the text of
\* the storage error.
C14_LogInErrorText ==
    \A t \in Tasks :
       LET c == task[t] IN
       (c.logged # None /\ ~c.logged[1].ok) =>
          IF c.ret[1].ok
          THEN c.logged[1].err = "StorageError"
          ELSE c.logged[1].err =
                  ToString(c.ret[1].err.status) \o ": " \o c.ret[1].err.message

C14_Witness ==
    \E t \in Tasks :
       /\ task[t].logged # None
       /\ ~task[t].logged[1].ok
       /\ task[t].logged[1].err = "401: denied"

\* C15: after the logout action has run, Session::load() returns none.
C15_LogoutClearsSession ==
    [][Logout => SessionLoad(storage') = None]_vars

\* The step runs Session::clear.
ClearRuns == \E t \in Tasks : ~task[t].cleared /\ task'[t].cleared

\* C16: Session::load() returns none right after Session::clear(), whatever
\* was stored before.
C16_LoadAfterClear ==
    [][/\ SessionLoad(SessionClear(storage)) = None
       /\ ClearRuns => SessionLoad(storage') = None]_vars

C16_Witness ==
    \E t \in Tasks :
       /\ task[t].cleared
       /\ task[t].exchanges # <<>>
       /\ storage[SESSION_KEY] = None
       /\ SessionLoad(storage) = None

\* The Sessions the model can hold.
Sessions ==
    UNION { {Session(g),
             NewSession(UserResponse, AccessToken(g), RefreshToken(g))} :
            g \in 1..MaxTokens }

\* C17: save(s) followed by load() yields a Session equal to s in all six
\* fields, for every Session s and whatever was stored before.
C17_SaveLoadRoundTrip ==
    \A s \in Sessions :
       LET loaded == SessionLoad(SessionSave(storage, s)) IN
       /\ loaded # None
       /\ loaded[1] = s
       /\ DOMAIN loaded[1] = DOMAIN s

C17_Witness ==
    \E t \in Tasks :
       /\ task[t].logged # None
       /\ task[t].logged[1].ok
       /\ storage[SESSION_KEY] # None
       /\ Len(storage[SESSION_KEY][1]) = 6
       /\ SessionLoad(storage) = Some(task[t].logged[1].value)
       /\ SessionLoad(storage) # Some(Session(1))

\* The names of the members of a JSON object.
MemberNames(doc) == { doc[i][1] : i \in 1..Len(doc) }
FieldNames == { SessionFields[i] : i \in 1..Len(SessionFields) }

\* The value under SESSION_KEY in st is a complete Session document.
Complete(st) ==
    /\ st[SESSION_KEY] # None
    /\ FieldNames \subseteq MemberNames(st[SESSION_KEY][1])

\* C18: Session::load() yields either none or a Session with all six fields;
\* it yields none whenever the key is absent or the stored value is not a
\* complete Session document; and the program stores under the key nothing
\* but complete Session documents.
C18_SessionAllOrNothing ==
    [][/\ LET loaded == SessionLoad(storage) IN
          /\ ~Complete(storage) => loaded = None
          /\ loaded # None =>
                /\ DOMAIN loaded[1] = FieldNames
                /\ storage[SESSION_KEY][1] = ToJson(loaded[1])
       /\ storage'[SESSION_KEY] # storage[SESSION_KEY] =>
             \/ storage'[SESSION_KEY] = None
             \/ /\ Complete(storage')
                /\ Len(storage'[SESSION_KEY][1]) = Len(SessionFields)
                /\ \E t \in Tasks :
                      LogInReturns(t) /\ task'[t].logged[1].ok]_vars

C18_Witness ==
    /\ storage[SESSION_KEY] = Some(StaleDocument)
    /\ SessionLoad(storage) = None
    /\ \E t \in Tasks : task[t].pc = "done" /\ task[t].auth = Authorized

\* The error request_json returned in c, if it returned one.
ReturnedError(c) == c.pc = "done" /\ c.ret # None /\ ~c.ret[1].ok

\* The error e agrees with what send_once number i of c obtained: status 0
\* exactly when no response, else the status of the response.
StatusOfSend(c, e, i) ==
    /\ e.status = 0 <=> c.responses[i] = None
    /\ c.responses[i] # None => e.status = c.responses[i][1]

\* C19 as stated: the error request_json returns has status 0 exactly when
\* its failing (last) send obtained no response, and otherwise carries the
\* status of that send's response.
C19_ErrorStatusOfFailingSend ==
    \A t \in Tasks :
       LET c == task[t] IN
       ReturnedError(c) => StatusOfSend(c, c.ret[1].err, Len(c.responses))

\* C19, amended: the error request_json returns is the one a send_once
\* produced, with status 0 exactly when that send obtained no response and
\* otherwise the status of that send's response; it is the error of the
\* call's last send, except that after a retry answered non-2xx it is the
\* error of the first send (status 401), not of the retry.
C19_ErrorStatusOfProducingSend ==
    \A t \in Tasks :
       LET c == task[t] IN
       ReturnedError(c) =>
          /\ Len(c.responses) = c.sends
          /\ StatusOfSend(c, c.ret[1].err,
                          IF c.retry # None /\ c.retry[1].outer THEN 2 ELSE 1)
          /\ (c.retry # None /\ ~c.retry[1].outer) =>
                (c.ret[1].err.status = 401 /\ c.responses[1] = Some(401))

C19_Witness ==
    \E t \in Tasks :
       /\ ReturnedError(task[t])
       /\ task[t].responses = <<Some(200)>>
       /\ task[t].ret[1].err = ErrorResponse("Bad JSON", 200)

\* C20: a request sent by request_json carries Content-Type:
\* application/json if and only if the call was given a body.
C20_ContentTypeIffBody ==
    \A t \in Tasks :
       \A i \in 1..Len(task[t].sent) :
          task[t].sent[i].content_type # None <=> task[t].body # None

\* The step in which call t puts a request of request_json on the network.
Sends(t) == Len(task'[t].sent) = Len(task[t].sent) + 1

\* C21: the Authorization header of each sent request is determined by the
\* auth mode: Authorized sends the access token of the Session stored at
\* send time, Ephemeral sends the token the caller supplied whatever the
\* store holds, Unauthorized sends no Authorization header.
C21_AuthorizationByMode ==
    [][\A t \in Tasks :
          /\ Sends(t) =>
                LET r == task'[t].sent[Len(task'[t].sent)]
                    auth == task'[t].auth IN
                /\ storage' = storage
                /\ auth = Authorized =>
                      /\ SessionLoad(storage) # None
                      /\ r.authorization =
                            Some(SessionLoad(storage)[1].access_token)
                /\ auth.mode = "Ephemeral" =>
                      r.authorization = Some(auth.access_token)
                /\ auth = Unauthorized => r.authorization = None
          /\ (task[t].pc = "idle" /\ task'[t].pc # "idle"
                /\ task'[t].auth.mode = "Ephemeral") => Sends(t)]_vars

C21_Witness ==
    \E t \in Tasks :
       /\ task[t].auth.mode = "Ephemeral"
       /\ Len(task[t].sent) = 1
       /\ task[t].sent[1].authorization = Some(AccessToken(2))
       /\ SessionLoad(storage) = Some(Session(1))

\* The step in which call t enters refresh_access_token.
RefreshStarts(t) == task[t].refreshes = 0 /\ task'[t].refreshes = 1

\* C22: refresh_access_token called while no Session is stored fails with
\* the status-0 "no session" error and sends no token-exchange request.
C22_RefreshWithoutSession ==
    [][\A t \in Tasks :
          (RefreshStarts(t) /\ SessionLoad(storage) = None) =>
             /\ task'[t].refreshed = Some(Err(NoSessionError))
             /\ task'[t].refreshed[1].err.status = 0
             /\ task'[t].exchanges = <<>>
             /\ task'[t].pc = "done"]_vars

C22_Witness ==
    \E t \in Tasks :
       /\ task[t].refreshes = 1
       /\ task[t].refreshed = Some(Err(NoSessionError))
       /\ task[t].exchanges = <<>>
       /\ task[t].responses = <<Some(401)>>

\* C23: a refresh that starts while a Session is stored sends exactly one
\* request: a POST to auth/token with no Authorization header and a
\* refresh_token grant with the username and the refresh token of the
\* Session stored at that moment; the call sends no other exchange.
C23_RefreshRequestShape ==
    [][\A t \in Tasks :
          /\ (RefreshStarts(t) /\ SessionLoad(storage) # None) =>
                /\ Len(task'[t].exchanges) = 1
                /\ LET q == task'[t].exchanges[1]
                       session == SessionLoad(storage)[1] IN
                   /\ q.path = "auth/token"
                   /\ q.method = "POST"
                   /\ q.authorization = None
                   /\ q.body # None
                   /\ q.body[1].grant_type = "refresh_token"
                   /\ q.body[1].username = session.username
                   /\ q.body[1].refresh_token = session.refresh_token
          /\ ~RefreshStarts(t) =>
                (task'[t].pc = "idle"
                   \/ task'[t].exchanges = task[t].exchanges)]_vars

C23_Witness ==
    \E t \in Tasks :
       /\ task[t].pc = "await_refresh"
       /\ Len(task[t].exchanges) = 1
       /\ task[t].exchanges[1].body[1].username = "bob"
       /\ task[t].exchanges[1].body[1].refresh_token = RefreshToken(2)

\* The step in which the refresh of call t completes.
RefreshCompletes(t) == task[t].refreshed = None /\ task'[t].refreshed # None

\* The fields of a Session a refresh has no business with.
Identity(s) == <<s.uuid, s.username, s.email, s.is_admin>>

\* C24: a refresh changes at most the access token and the refresh token
\* of the stored Session: a refresh that succeeds leaves a stored Session
\* stored, with the uuid, username, email and is_admin it had; a refresh
\* that fails changes no field either (the Session is then removed whole by
\* request_json).
C24_RefreshKeepsIdentity ==
    [][\A t \in Tasks :
          RefreshCompletes(t) =>
             IF task'[t].refreshed[1].ok
             THEN SessionLoad(storage) # None =>
                     /\ SessionLoad(storage') # None
                     /\ Identity(SessionLoad(storage')[1]) =
                           Identity(SessionLoad(storage)[1])
             ELSE SessionLoad(storage') = None]_vars

C24_Witness ==
    \E t \in Tasks :
       /\ RefreshSucceeded(task[t])
       /\ SessionLoad(storage) # None
       /\ Identity(SessionLoad(storage)[1]) = Identity(Session(1))

\* C25 as stated: two Authorized calls that both received a 401 have sent
\* two token exchanges in total, one each.
C25_TwoExchangesInTotal ==
    (\A t \in Tasks : task[t].auth = Authorized /\ First401(task[t])) =>
       \A t \in Tasks : Len(task[t].exchanges) = 1

\* C25, amended: every Authorized call that receives a 401 enters its own
\* refresh at once, whatever the other calls are doing, and sends its own
\* token exchange unless no Session is stored at that moment (a failed
\* refresh of another call has cleared it), in which case its refresh fails
\* with the "no session" error; two refreshes that succeed received
\* different token pairs.
C25_OwnRefreshPerCall ==
    /\ \A t \in Tasks :
          LET c == task[t] IN
          (c.auth = Authorized /\ First401(c)) =>
             /\ c.refreshes = 1
             /\ IF c.exchanges = <<>>
                THEN c.refreshed = Some(Err(NoSessionError))
                ELSE Len(c.exchanges) = 1
    /\ \A t, u \in Tasks :
          (t # u /\ RefreshSucceeded(task[t]) /\ RefreshSucceeded(task[u])) =>
             task[t].refreshed # task[u].refreshed

C25_Witness ==
    \A t \in Tasks :
       /\ task[t].pc = "await_refresh"
       /\ task[t].auth = Authorized
       /\ Len(task[t].exchanges) = 1

\* C26: the refresh that has just completed is the last writer of the
\* store, so the Session stored when the retry is sent holds the access
\* token that refresh received, and the retry attaches the stored token.
C26_LastWriterWins ==
    [][\A t \in Tasks :
          (Sends(t) /\ Len(task'[t].sent) = 2) =>
             /\ SessionLoad(storage') # None
             /\ task'[t].sent[2].authorization =
                   Some(SessionLoad(storage')[1].access_token)
             /\ SessionLoad(storage')[1].access_token =
                   task'[t].refreshed[1].value.access_token]_vars

\* C27: every error of the first send other than a 401 on an Authorized
\* call is what request_json returns, with the status and the message the
\* classification of the first send produced, and the call does nothing
\* else: no refresh, no second send, no clearing of the Session.
C27_OtherErrorsUnmodified ==
    \A t \in Tasks :
       LET c == task[t] IN
       (FirstFailed(c)
          /\ ~(c.auth = Authorized /\ FirstErr(c).status = 401)) =>
          /\ c.pc = "done"
          /\ c.ret # None
          /\ ~c.ret[1].ok
          /\ c.ret[1].err.status = FirstErr(c).status
          /\ c.ret[1].err.message = FirstErr(c).message
          /\ StatusOfSend(c, c.ret[1].err, 1)
          /\ c.sends = 1
          /\ c.refreshes = 0
          /\ c.retry = None
          /\ ~c.cleared

C27_Witness ==
    \E t \in Tasks :
       /\ task[t].auth = Authorized
       /\ task[t].pc = "done"
       /\ task[t].responses = <<Some(403)>>
       /\ task[t].ret = Some(Err(ErrorResponse("denied", 403)))

\* C28: the Session goes from absent to present only in a step in which
\* log_in returns Ok after its profile fetch, sent with the access token
\* it was given, succeeded; it goes from present to absent only by a
\* logout or by the failed refresh of an Authorized call; a refresh that
\* completes while no Session is stored leaves none stored.
C28_SessionLifecycle ==
    [][storage'[SESSION_KEY] # storage[SESSION_KEY] =>
          LET before == SessionLoad(storage)
              after == SessionLoad(storage') IN
          /\ (before = None /\ after # None) =>
                \E t \in Tasks :
                   /\ LogInReturns(t)
                   /\ task'[t].logged[1].ok
                   /\ task'[t].ret[1].ok
                   /\ task'[t].responses = <<Some(200)>>
                   /\ task'[t].auth.mode = "Ephemeral"
                   /\ task'[t].auth.access_token =
                         task'[t].login[1].access_token
                   /\ task'[t].sent[1].authorization =
                         Some(task'[t].login[1].access_token)
                   /\ after[1].access_token = task'[t].login[1].access_token
          /\ (before # None /\ after = None) =>
                \/ Logout
                \/ \E t \in Tasks :
                      /\ task[t].auth = Authorized
                      /\ ~task[t].cleared
                      /\ task'[t].cleared
                      /\ RefreshDidFail(task'[t])
          /\ \A t \in Tasks :
                (RefreshCompletes(t) /\ before = None) => after = None]_vars

C28_Witness ==
    \E t, u \in Tasks :
       /\ t # u
       /\ RefreshSucceeded(task[t])
       /\ task[u].cleared
       /\ SessionLoad(storage) = None

\* The position of a step in the protocol of one call.
Rank(pc) ==
    CASE pc = "idle" -> 0
      [] pc = "await_first" -> 1
      [] pc = "await_refresh" -> 2
      [] pc = "await_retry" -> 3
      [] pc = "done" -> 4

\* C29: within one call the steps are ordered first send, refresh, retry,
\* return: a call only moves forward; the token exchange is sent only in
\* the step that classifies the first response as a 401; the retry is sent
\* only in the step in which the refresh completes successfully; and a call
\* that has returned has the outcome of every send and of every exchange
\* it started.
C29_StepsOrdered ==
    [][\A t \in Tasks :
          LET c == task[t]
              d == task'[t] IN
          /\ d.pc # c.pc =>
                \/ Rank(d.pc) > Rank(c.pc)
                \/ (c.pc = "done" /\ d.pc = "idle")
          /\ Len(d.exchanges) > Len(c.exchanges) =>
                /\ c.pc = "await_first"
                /\ d.pc = "await_refresh"
                /\ First401(d)
          /\ (Sends(t) /\ Len(d.sent) = 2) =>
                /\ c.pc = "await_refresh"
                /\ d.pc = "await_retry"
                /\ RefreshCompletes(t)
                /\ RefreshSucceeded(d)
          /\ d.pc = "done" =>
                /\ Len(d.responses) = d.sends
                /\ Len(d.sent) <= d.sends
                /\ d.exchanges # <<>> => d.refreshed # None
                /\ d.ret # None]_vars

C29_Witness ==
    \E t \in Tasks :
       /\ task[t].pc = "done"
       /\ Len(task[t].sent) = 2
       /\ Len(task[t].exchanges) = 1
       /\ task[t].responses = <<Some(401), Some(200)>>

\* C30: a refresh started by a 401 that arrives after another call's
\* refresh succeeded, with no log_in in between, sends the refresh token
\* that earlier refresh received.
C30_RefreshTokenRotation ==
    [][\A t, u \in Tasks :
          (/\ t # u
           /\ RefreshSucceeded(task[u])
           /\ task[u].login = None
           /\ task[t].login = None
           /\ RefreshStarts(t)
           /\ task'[t].exchanges # <<>>) =>
             task'[t].exchanges[1].body[1].refresh_token =
                task[u].refreshed[1].value.refresh_token]_vars

\* C31: a refresh whose token exchange gets a non-2xx answer or no answer
\* returns an error after one token-exchange request, and the refresh
\* itself writes nothing: the only change of the store in that step is the
\* removal of the Session by request_json, which then returns.
C31_FailedExchangeOneAttempt ==
    [][\A t \in Tasks :
          (/\ RefreshCompletes(t)
           /\ task[t].exchanges # <<>>
           /\ ~task'[t].refreshed[1].ok
           /\ \/ task'[t].refreshed[1].err.status \in ErrorStatuses
              \/ task'[t].refreshed[1].err = ErrorResponse("Network error", 0))
          =>
             /\ task'[t].exchanges = task[t].exchanges
             /\ Len(task'[t].exchanges) = 1
             /\ task'[t].refreshes = 1
             /\ task'[t].pc = "done"
             /\ task'[t].cleared
             /\ storage' = SessionClear(storage)
             /\ \A k \in StorageKeys \ {SESSION_KEY} :
                   storage'[k] = storage[k]]_vars

C31_Witness ==
    \E t \in Tasks :
       /\ task[t].pc = "done"
       /\ Len(task[t].exchanges) = 1
       /\ task[t].refreshed = Some(Err(ErrorResponse("denied", 403)))
       /\ task[t].cleared

\* The error of a refresh whose exchange was answered 2xx with a body that
\* is not a token pair.
UnparsableExchange == ErrorResponse("Bad JSON", 0)

\* C32: a token exchange answered 2xx with a body that does not decode as
\* a token pair is a refresh failure: the Session is cleared, the browser
\* is sent to /login, no retry is sent and the original 401 is returned.
C32_UnparsableExchangeIsFailure ==
    [][\A t \in Tasks :
          (RefreshCompletes(t)
             /\ task'[t].refreshed = Some(Err(UnparsableExchange))) =>
             /\ storage'[SESSION_KEY] = None
             /\ task'[t].cleared
             /\ task'[t].redirected
             /\ location' = "/login"
             /\ task'[t].sends = 1
             /\ Len(task'[t].sent) = 1
             /\ task'[t].retry = None
             /\ task'[t].pc = "done"
             /\ task'[t].ret = Some(Err(FirstErr(task[t])))
             /\ task'[t].ret[1].err.status = 401]_vars

C32_Witness ==
    \E t \in Tasks :
       /\ task[t].pc = "done"
       /\ task[t].refreshed = Some(Err(UnparsableExchange))
       /\ Len(task[t].exchanges) = 1
       /\ location = "/login"

\* C33: when, after a successful refresh, the second send_once fails
\* before it classifies a response as an API error (no Session at resend
\* time, transport failure, undecodable 2xx body), request_json returns
\* that error, and the step neither clears the Session nor redirects.
C33_RetryOwnErrorNoLogout ==
    [][\A t \in Tasks :
          (task[t].retry = None /\ task'[t].retry # None
             /\ task'[t].retry[1].outer) =>
             /\ RefreshSucceeded(task'[t])
             /\ task'[t].pc = "done"
             /\ task'[t].ret = Some(Err(task'[t].retry[1].err))
             /\ StatusOfSend(task'[t], task'[t].ret[1].err, 2)
             /\ ~task'[t].cleared
             /\ ~task'[t].redirected
             /\ storage' = storage
             /\ location' = location]_vars

C33_Witness ==
    \E t \in Tasks :
       /\ task[t].pc = "done"
       /\ RefreshSucceeded(task[t])
       /\ task[t].retry = Some(Outer(NoSessionError))
       /\ task[t].ret = Some(Err(NoSessionError))
       /\ location = "/login"

\* C34: a call whose first send is not classified as a 401 under
\* Authorized leaves the store as it found it: no step of such a call
\* clears or writes it (the one write in a step of such a call is
\* log_in's own save, made after its request_json has returned Ok).
C34_NoRecoveryNoStoreChange ==
    [][\A t \in Tasks :
          (task'[t] # task[t]
             /\ ~(task'[t].auth = Authorized /\ First401(task'[t]))) =>
             /\ ~task'[t].cleared
             /\ task'[t].refreshes = 0
             /\ storage' # storage =>
                   /\ task'[t].login # None
                   /\ LogInReturns(t)
                   /\ task'[t].logged[1].ok
                   /\ task'[t].ret[1].ok]_vars

C34_Witness ==
    \E t \in Tasks :
       /\ task[t].pc = "done"
       /\ task[t].auth = Unauthorized
       /\ First401(task[t])
       /\ task[t].login = None
       /\ SessionLoad(storage) = Some(Session(1))

\* The network is fair to every call: a send or an exchange in flight
\* eventually completes, with a response or a transport error.
\* (The three steps of a call are enabled at different positions of the
\* call, so one fairness condition on their disjunction covers them.)
Completes(t) == RecvFirst(t) \/ RecvRefresh(t) \/ RecvRetry(t)

FairSpec == Spec /\ \A t \in Tasks : WF_vars(Completes(t))

\* A request or an exchange of call c is in flight.
InFlight(c) == c.pc \in {"await_first", "await_refresh", "await_retry"}

\* C35: every call puts at most three exchanges on the network (two sends
\* and one token exchange); a call leaves the in-flight positions only by
\* returning; and, the network being fair, no call stays in flight for
\* ever, whatever the other calls do: every call in flight eventually
\* returns.
C35_CallTerminates ==
    /\ [](\A t \in Tasks :
             /\ Len(task[t].sent) <= 2
             /\ Len(task[t].exchanges) <= 1
             /\ task[t].sends <= 2
             /\ Len(task[t].sent) + Len(task[t].exchanges) <= 3)
    /\ [][\A t \in Tasks :
             (InFlight(task[t]) /\ ~InFlight(task'[t])) =>
                task'[t].pc = "done"]_vars
    /\ \A t \in Tasks : []<>(~InFlight(task[t]))

C35_Witness ==
    \E t \in Tasks :
       /\ task[t].pc = "done"
       /\ Len(task[t].sent) + Len(task[t].exchanges) = 3
       /\ \E u \in Tasks \ {t} : InFlight(task[u])

====
